---- MODULE Spec2Model ----
(***************************************************************************)
(* Model of uagents/storage/__init__.py: the file-backed KeyValueStore     *)
(* (one JSON document per store) and the private-key repository            *)
(* (load_all_keys, save_private_keys, get_or_create_private_keys over      *)
(* private_keys.json).                                                     *)
(*                                                                         *)
(* Python dicts keep insertion order, and json.dump writes the members in  *)
(* that order, so a dict is a sequence of entries with distinct keys; dict *)
(* equality (==) ignores the order.  A JSON text is the sequence of its    *)
(* members, each value a lexeme (null, number, string), so that writing    *)
(* and reading a file are two different conversions.                       *)
(***************************************************************************)
EXTENDS Integers, Sequences, FiniteSets, TLC

VARIABLES
    fs,          \* the store's backing file {cwd}/{name}_data.json
    data,        \* data[i]: self._data of store instance i
    constructed, \* constructed[i]: instance i exists (__init__ returned)
    live,        \* history: live[i] = keys loaded at construction or set since,
                 \*          and not removed or cleared afterwards
    persisted,   \* history: some instance has run _save on the backing file
    last,        \* the last KeyValueStore call and what it returned
    writer,      \* history: the instance that ran _save last (0: none yet)
    seen,        \* history: seen[i] = keys instance i has held since __init__
    saving,      \* a _save in progress (file opened for writing, text not yet
                 \* written), and what a crash during it left behind
    keyfile,     \* the credential file {cwd}/private_keys.json
    calls,       \* the last two credential-repository calls, newest first
    proc         \* proc[p]: where process p stands inside
                 \*          get_or_create_private_keys, and its locals

vars == <<fs, data, constructed, live, persisted, last, writer, seen, saving, keyfile, calls, proc>>
storeVars == <<fs, data, constructed, live, persisted, last, writer, seen, saving>>
credVars == <<keyfile, calls, proc>>

----------------------------------------------------------------------------
(* Bounds *)

NumKeys == 2
KeyNames == <<"x", "y", "z", "w", "v">>
Keys == {KeyNames[i] : i \in 1..NumKeys}

Inst == {1, 2}

NumGen == 2
GenNames == <<"K1", "K2", "K3", "K4">>
GenKeys == {GenNames[i] : i \in 1..NumGen}   \* what the key generators can return

Names == {"alice", "bob"}

----------------------------------------------------------------------------
(* Python values.  None is both a storable value and what dict.get returns *)
(* for a missing key.                                                      *)

PyNone == [type |-> "NoneType", val |-> "None"]
PyInt1 == [type |-> "int", val |-> "1"]
PyStr1 == [type |-> "str", val |-> "1"]
PyTrue == [type |-> "bool", val |-> "True"]
PyFalse == [type |-> "bool", val |-> "False"]
NoVal == [type |-> "-", val |-> "-"]

Values == {PyNone, PyInt1, PyStr1}

----------------------------------------------------------------------------
(* dict: insertion-ordered entries with distinct keys *)

Entry(k, v) == [key |-> k, value |-> v]

DictKeys(d) == {d[i].key : i \in DOMAIN d}

DictHas(d, k) == k \in DictKeys(d)

DictGet(d, k, default) ==
    IF DictHas(d, k)
    THEN d[CHOOSE i \in DOMAIN d : d[i].key = k].value
    ELSE default

DictSetDefault(d, k, v) == IF DictHas(d, k) THEN d ELSE Append(d, Entry(k, v))

DictSet(d, k, v) ==
    IF DictHas(d, k)
    THEN [i \in DOMAIN d |-> IF d[i].key = k THEN Entry(k, v) ELSE d[i]]
    ELSE Append(d, Entry(k, v))

DictDelFirstOnly(d, k) == IF Len(d) > 0 /\ d[1].key = k THEN Tail(d) ELSE d

DictDel(d, k) == SelectSeq(d, LAMBDA e : e.key # k)

DictEq(a, b) == {a[i] : i \in DOMAIN a} = {b[i] : i \in DOMAIN b}

AllDicts ==
    {d \in UNION {[1..n -> {Entry(k, v) : k \in Keys, v \in Values}] : n \in 0..NumKeys} :
        \A i, j \in DOMAIN d : i # j => d[i].key # d[j].key}

----------------------------------------------------------------------------
(* json.dump / json.load of a store's mapping *)

JsonEncodeUnquoted(v) ==
    CASE v.type = "NoneType" -> [kind |-> "null", text |-> "null"]
      [] v.type = "int" -> [kind |-> "number", text |-> v.val]
      [] v.type = "str" -> [kind |-> "number", text |-> v.val]

JsonEncode(v) ==
    CASE v.type = "NoneType" -> [kind |-> "null", text |-> "null"]
      [] v.type = "int" -> [kind |-> "number", text |-> v.val]
      [] v.type = "str" -> [kind |-> "string", text |-> v.val]

JsonDecode(lex) ==
    CASE lex.kind = "null" -> PyNone
      [] lex.kind = "number" -> [type |-> "int", val |-> lex.text]
      [] lex.kind = "string" -> [type |-> "str", val |-> lex.text]

JsonDump(d) == [i \in DOMAIN d |-> [name |-> d[i].key, lex |-> JsonEncode(d[i].value)]]

RECURSIVE JsonLoadFrom(_, _)
JsonLoadFrom(members, acc) ==
    IF members = <<>>
    THEN acc
    ELSE JsonLoadFrom(Tail(members),
                      DictSet(acc, Head(members).name, JsonDecode(Head(members).lex)))

JsonLoad(members) == JsonLoadFrom(members, <<>>)

\* A JSON text parses iff its closing brace was written.
JsonValid(f) == f.closed

----------------------------------------------------------------------------
(* The backing file *)

NoFile == [exists |-> FALSE, members |-> <<>>, closed |-> FALSE]

\* open(path, "w") then json.dump(self._data, file): the whole text, rewritten
Save(d) == [exists |-> TRUE, members |-> JsonDump(d), closed |-> TRUE]

\* json.load(file) of an existing file
Load(f) == JsonLoad(f.members)

GetResultNoDefault(d, k) == DictGet(d, k, NoVal)

\* self._data.get(key)
GetResult(d, k) == DictGet(d, k, PyNone)

\* key in self._data
HasResult(d, k) == DictHas(d, k)

Call(op, i, k, v, ret, wrote) ==
    [op |-> op, inst |-> i, key |-> k, arg |-> v, ret |-> ret, wrote |-> wrote,
     raised |-> FALSE]

Raise(op, i, k, v) ==
    [op |-> op, inst |-> i, key |-> k, arg |-> v, ret |-> NoVal, wrote |-> FALSE,
     raised |-> TRUE]

NoCall == Call("-", 1, "-", NoVal, NoVal, FALSE)

NoSaving == [active |-> FALSE, crashed |-> FALSE, call |-> NoCall,
             before |-> NoFile, after |-> NoFile]

----------------------------------------------------------------------------
(* KeyValueStore *)

ConstructFallbackEmpty(i) ==
    /\ constructed' = [constructed EXCEPT ![i] = TRUE]
    /\ data' = [data EXCEPT ![i] = IF fs.exists /\ JsonValid(fs) THEN Load(fs) ELSE <<>>]
    /\ live' = [live EXCEPT ![i] =
                    IF fs.exists /\ JsonValid(fs)
                    THEN {fs.members[j].name : j \in DOMAIN fs.members}
                    ELSE {}]
    /\ last' = Call("init", i, "-", NoVal, NoVal, FALSE)
    /\ UNCHANGED <<fs, persisted, writer, saving, credVars>>
    /\ seen' = [seen EXCEPT ![i] = DictKeys(data'[i])]

ConstructAndSave(i) ==
    /\ ~(fs.exists /\ ~JsonValid(fs))
    /\ constructed' = [constructed EXCEPT ![i] = TRUE]
    /\ data' = [data EXCEPT ![i] = IF fs.exists THEN Load(fs) ELSE <<>>]
    /\ live' = [live EXCEPT ![i] =
                    IF fs.exists
                    THEN {fs.members[j].name : j \in DOMAIN fs.members}
                    ELSE {}]
    /\ fs' = Save(data'[i])
    /\ last' = Call("init", i, "-", NoVal, NoVal, TRUE)
    /\ UNCHANGED <<persisted, writer, saving, credVars>>
    /\ seen' = [seen EXCEPT ![i] = DictKeys(data'[i])]

\* __init__: a new instance takes the place of instance i
Construct(i) ==
    /\ IF fs.exists /\ ~JsonValid(fs)
       THEN /\ constructed' = [constructed EXCEPT ![i] = FALSE]
            /\ data' = [data EXCEPT ![i] = <<>>]
            /\ live' = [live EXCEPT ![i] = {}]
            /\ last' = Raise("init", i, "-", NoVal)
       ELSE /\ constructed' = [constructed EXCEPT ![i] = TRUE]
            /\ data' = [data EXCEPT ![i] = IF fs.exists THEN Load(fs) ELSE <<>>]
            /\ live' = [live EXCEPT ![i] =
                            IF fs.exists
                            THEN {fs.members[j].name : j \in DOMAIN fs.members}
                            ELSE {}]
            /\ last' = Call("init", i, "-", NoVal, NoVal, FALSE)
    /\ UNCHANGED <<fs, persisted, writer, saving, credVars>>
    /\ seen' = [seen EXCEPT ![i] = DictKeys(data'[i])]

Get(i, k) ==
    /\ constructed[i]
    /\ last' = Call("get", i, k, NoVal, GetResult(data[i], k), FALSE)
    /\ UNCHANGED <<fs, data, constructed, live, persisted, writer, saving, seen, credVars>>

Has(i, k) ==
    /\ constructed[i]
    /\ last' = Call("has", i, k, NoVal, IF HasResult(data[i], k) THEN PyTrue ELSE PyFalse,
                 FALSE)
    /\ UNCHANGED <<fs, data, constructed, live, persisted, writer, saving, seen, credVars>>

Set(i, k, v) ==
    /\ constructed[i]
    /\ data' = [data EXCEPT ![i] = DictSet(data[i], k, v)]
    /\ fs' = Save(data'[i])
    /\ live' = [live EXCEPT ![i] = live[i] \cup {k}]
    /\ persisted' = TRUE
    /\ writer' = i
    /\ last' = Call("set", i, k, v, NoVal, TRUE)
    /\ UNCHANGED <<constructed, saving, credVars>>
    /\ seen' = [seen EXCEPT ![i] = seen[i] \cup {k}]

RemoveNoSave(i, k) ==
    /\ constructed[i]
    /\ data' = [data EXCEPT ![i] = DictDel(data[i], k)]
    /\ live' = [live EXCEPT ![i] = live[i] \ {k}]
    /\ last' = Call("remove", i, k, NoVal, NoVal, FALSE)
    /\ UNCHANGED <<fs, persisted, writer, constructed, saving, seen, credVars>>

RemoveAlwaysSave(i, k) ==
    /\ constructed[i]
    /\ data' = [data EXCEPT ![i] = DictDel(data[i], k)]
    /\ fs' = Save(data'[i])
    /\ persisted' = TRUE
    /\ writer' = i
    /\ live' = [live EXCEPT ![i] = live[i] \ {k}]
    /\ last' = Call("remove", i, k, NoVal, NoVal, TRUE)
    /\ UNCHANGED <<constructed, saving, seen, credVars>>

Remove(i, k) ==
    /\ constructed[i]
    /\ IF DictHas(data[i], k)
       THEN /\ data' = [data EXCEPT ![i] = DictDel(data[i], k)]
            /\ fs' = Save(data'[i])
            /\ persisted' = TRUE
            /\ writer' = i
            /\ last' = Call("remove", i, k, NoVal, NoVal, TRUE)
       ELSE /\ UNCHANGED <<data, fs, persisted, writer>>
            /\ last' = Call("remove", i, k, NoVal, NoVal, FALSE)
    /\ live' = [live EXCEPT ![i] = live[i] \ {k}]
    /\ UNCHANGED <<constructed, saving, seen, credVars>>

ClearNoSave(i) ==
    /\ constructed[i]
    /\ data' = [data EXCEPT ![i] = <<>>]
    /\ live' = [live EXCEPT ![i] = {}]
    /\ last' = Call("clear", i, "-", NoVal, NoVal, FALSE)
    /\ UNCHANGED <<fs, persisted, writer, constructed, saving, seen, credVars>>

ClearIfNonEmpty(i) ==
    /\ constructed[i]
    /\ data' = [data EXCEPT ![i] = <<>>]
    /\ IF data[i] # <<>>
       THEN fs' = Save(data'[i]) /\ persisted' = TRUE /\ writer' = i
       ELSE UNCHANGED <<fs, persisted, writer>>
    /\ live' = [live EXCEPT ![i] = {}]
    /\ last' = Call("clear", i, "-", NoVal, NoVal, data[i] # <<>>)
    /\ UNCHANGED <<constructed, saving, seen, credVars>>

Clear(i) ==
    /\ constructed[i]
    /\ data' = [data EXCEPT ![i] = <<>>]
    /\ fs' = Save(data'[i])
    /\ persisted' = TRUE
    /\ writer' = i
    /\ live' = [live EXCEPT ![i] = {}]
    /\ last' = Call("clear", i, "-", NoVal, NoVal, TRUE)
    /\ UNCHANGED <<constructed, saving, seen, credVars>>

----------------------------------------------------------------------------
(* A single store instance, the only writer of its backing file.  The file *)
(* found at start is absent or was written by an earlier instance.         *)

NoKeyCall == [op |-> "-", name |-> "-", ik |-> "-", wk |-> "-", generated |-> 0,
              wrote |-> FALSE, raised |-> FALSE]

InitStoreVars ==
    /\ fs \in {NoFile} \cup {Save(d) : d \in AllDicts}
    /\ data = [i \in Inst |-> <<>>]
    /\ constructed = [i \in Inst |-> FALSE]
    /\ live = [i \in Inst |-> {}]
    /\ persisted = FALSE
    /\ last = NoCall
    /\ writer = 0
    /\ seen = [i \in Inst |-> {}]
    /\ saving = NoSaving

Procs == {1, 2}

Idle == [pc |-> "idle", op |-> "-", name |-> "-", private_keys |-> <<>>,
         identity_key |-> "-", wallet_key |-> "-", saved_key |-> "-",
         generated |-> 0, wrote |-> FALSE, raised |-> FALSE, stale |-> FALSE]

InitCredIdle ==
    /\ keyfile = NoFile
    /\ calls = <<NoKeyCall, NoKeyCall>>
    /\ proc = [p \in Procs |-> Idle]

Init ==
    /\ InitStoreVars
    /\ InitCredIdle

Next ==
    \/ Construct(1)
    \/ \E k \in Keys : Get(1, k)
    \/ \E k \in Keys : Has(1, k)
    \/ \E k \in Keys, v \in Values : Set(1, k, v)
    \/ \E k \in Keys : Remove(1, k)
    \/ Clear(1)

Spec == Init /\ [][Next]_vars

----------------------------------------------------------------------------
(* The credential file private_keys.json: name -> {identity_key, wallet_key} *)

Str(s) == [type |-> "str", val |-> s]

Record(ik, wk) == <<Entry("identity_key", Str(ik)), Entry("wallet_key", Str(wk))>>

KeysDump(d) == [i \in DOMAIN d |-> [name |-> d[i].key, obj |-> JsonDump(d[i].value)]]

RECURSIVE KeysLoadFrom(_, _)
KeysLoadFrom(members, acc) ==
    IF members = <<>>
    THEN acc
    ELSE KeysLoadFrom(Tail(members),
                      DictSet(acc, Head(members).name, JsonLoad(Head(members).obj)))

WriteKeys(d) == [exists |-> TRUE, members |-> KeysDump(d), closed |-> TRUE]

\* load_all_keys: the file's mapping, {} when there is no file
load_all_keys(f) == IF f.exists THEN KeysLoadFrom(f.members, <<>>) ELSE <<>>

\* json.load raises on a file that is no JSON text
LoadRaises(f) == f.exists /\ ~JsonValid(f)

save_private_keys_fresh(f, name, identity_key, wallet_key) ==
    WriteKeys(DictSet(<<>>, name, Record(identity_key, wallet_key)))

\* save_private_keys: the file after the call
save_private_keys(f, name, identity_key, wallet_key) ==
    WriteKeys(DictSet(load_all_keys(f), name, Record(identity_key, wallet_key)))

TruthyAllFields(rec) ==
    /\ rec # <<>>
    /\ \A j \in DOMAIN rec : rec[j].value.val # ""

\* bool(private_keys) of a dict
Truthy(rec) == rec # <<>>

HitRecordIfFalsy(keys, name) == DictHas(keys, name) /\ ~Truthy(DictGet(keys, name, <<>>))

\* if name in keys: private_keys = keys.get(name); if private_keys:
HitRecord(keys, name) == DictHas(keys, name) /\ Truthy(DictGet(keys, name, <<>>))

KeyCall(op, name, ik, wk, generated, wrote) ==
    [op |-> op, name |-> name, ik |-> ik, wk |-> wk, generated |-> generated,
     wrote |-> wrote, raised |-> FALSE]

KeyRaise(op, name, generated) ==
    [op |-> op, name |-> name, ik |-> "-", wk |-> "-", generated |-> generated,
     wrote |-> FALSE, raised |-> TRUE]

Record2(call) == calls' = <<call, calls[1]>>

LoadAll ==
    /\ Record2(IF LoadRaises(keyfile)
               THEN KeyRaise("loadAll", "-", 0)
               ELSE KeyCall("loadAll", "-", "-", "-", 0, FALSE))
    /\ UNCHANGED <<keyfile, proc, storeVars>>

SaveRecord(name, identity_key, wallet_key) ==
    /\ IF LoadRaises(keyfile)
       THEN /\ Record2(KeyRaise("saveRecord", name, 0))
            /\ UNCHANGED keyfile
       ELSE /\ keyfile' = save_private_keys(keyfile, name, identity_key, wallet_key)
            /\ Record2(KeyCall("saveRecord", name, identity_key, wallet_key, 0, TRUE))
    /\ UNCHANGED <<proc, storeVars>>

\* get_or_create_private_keys: Identity.generate() once, PrivateKey() twice
GetOrCreate(name) ==
    /\ IF LoadRaises(keyfile)
       THEN /\ Record2(KeyRaise("getOrCreate", name, 0))
            /\ UNCHANGED keyfile
       ELSE LET keys == load_all_keys(keyfile)
                private_keys == DictGet(keys, name, <<>>)
            IN  IF HitRecord(keys, name)
                THEN /\ UNCHANGED keyfile
                     /\ IF DictHas(private_keys, "identity_key")
                           /\ DictHas(private_keys, "wallet_key")
                        THEN Record2(KeyCall("getOrCreate", name,
                                             DictGet(private_keys, "identity_key", NoVal).val,
                                             DictGet(private_keys, "wallet_key", NoVal).val,
                                             0, FALSE))
                        ELSE Record2(KeyRaise("getOrCreate", name, 0))   \* KeyError
                ELSE \E identity_key \in GenKeys, wallet_key \in GenKeys, saved_key \in GenKeys :
                        /\ keyfile' = save_private_keys(keyfile, name, identity_key, saved_key)
                        /\ Record2(KeyCall("getOrCreate", name, identity_key, wallet_key,
                                           3, TRUE))
    /\ UNCHANGED <<proc, storeVars>>

----------------------------------------------------------------------------
(* One process calling the credential repository, call after call.  The    *)
(* file found at start is absent or holds, per name, no record, an empty   *)
(* record, a record with one field, or a full record.                      *)

StoredKeys == GenKeys \cup {""}

InitRecords ==
    {<<>>}
    \cup {<<Entry("identity_key", Str(a))>> : a \in GenKeys}
    \cup {<<Entry("wallet_key", Str(a))>> : a \in GenKeys}
    \cup {Record(a, b) : a \in StoredKeys, b \in StoredKeys}

InitKeyDicts ==
    {d \in UNION {[1..n -> {Entry(nm, r) : nm \in Names, r \in InitRecords}] : n \in 0..2} :
        \A i, j \in DOMAIN d : i # j => d[i].key # d[j].key}

InitKeys ==
    /\ keyfile \in {NoFile} \cup {WriteKeys(d) : d \in InitKeyDicts}
    /\ calls = <<NoKeyCall, NoKeyCall>>
    /\ proc = [p \in Procs |-> Idle]
    /\ fs = NoFile
    /\ data = [i \in Inst |-> <<>>]
    /\ constructed = [i \in Inst |-> FALSE]
    /\ live = [i \in Inst |-> {}]
    /\ persisted = FALSE
    /\ last = NoCall
    /\ writer = 0
    /\ seen = [i \in Inst |-> {}]
    /\ saving = NoSaving

NextKeys ==
    \/ LoadAll
    \/ \E n \in Names, a \in GenKeys, b \in GenKeys : SaveRecord(n, a, b)
    \/ \E n \in Names : GetOrCreate(n)

SpecKeys == InitKeys /\ [][NextKeys]_vars

----------------------------------------------------------------------------
(* Properties of the KeyValueStore (specification Spec) *)

FileMatches(i) == fs.exists /\ JsonValid(fs) /\ DictEq(Load(fs), data[i])

\* C1: for the single writing instance, between calls either there is no
\* backing file and the mapping is empty, or the file's content equals the
\* mapping; after every set, every remove that deleted a key and every clear
\* the file exists and equals the mapping.
C1_FileEqualsMapping ==
    constructed[1] =>
        /\ (~fs.exists /\ data[1] = <<>>) \/ FileMatches(1)
        /\ (last.op \in {"set", "clear"} \/ (last.op = "remove" /\ last.wrote))
              => FileMatches(1)

C1_Witness ==
    /\ constructed[1]
    /\ last.op = "remove" /\ last.wrote
    /\ data[1] # <<>>
    /\ FileMatches(1)

\* C2: right after set(key, value) returns, get(key) returns value and
\* has(key) is true, for every key and value (None included), whether or not
\* the key was present before.
C2_SetThenGet ==
    last.op = "set" =>
        /\ ~last.raised
        /\ GetResult(data[last.inst], last.key) = last.arg
        /\ HasResult(data[last.inst], last.key)

\* the key set last stands before another key, so it was present before the set
C2_Witness ==
    /\ last.op = "set" /\ last.arg = PyNone
    /\ Len(data[1]) = 2 /\ data[1][1].key = last.key
    /\ GetResult(data[1], last.key) = PyNone

\* C3: once an instance has persisted a mutation, a new KeyValueStore on the
\* same file starts with a mapping equal to the mapping the earlier instance
\* holds at that moment.
C3_RoundTrip ==
    [][(last'.op = "init" /\ constructed[1] /\ persisted)
          => (~last'.raised /\ constructed'[1] /\ DictEq(data'[1], data[1]))]_vars

C3_Witness ==
    /\ last.op = "init" /\ persisted /\ constructed[1]
    /\ Len(data[1]) = 2
    /\ {data[1][1].value, data[1][2].value} = {PyStr1, PyNone}

\* C8: remove(key) of a key that is not in the mapping changes neither the
\* mapping nor the backing file (none is created), writes nothing and raises
\* nothing; repeating it changes nothing either.
C8_RemoveAbsentNoOp ==
    [][(last'.op = "remove" /\ ~HasResult(data[last'.inst], last'.key))
          => (data' = data /\ fs' = fs /\ ~last'.wrote /\ ~last'.raised)]_vars

C8_Witness ==
    /\ last.op = "remove" /\ ~last.wrote
    /\ constructed[1] /\ ~fs.exists /\ data[1] = <<>>

\* C9: after clear() returns, get(key) is absent and has(key) is false for
\* every key, and the backing file exists and holds an empty object.
C9_ClearEmpties ==
    last.op = "clear" =>
        /\ ~last.raised
        /\ \A k \in Keys : GetResult(data[last.inst], k) = PyNone
                           /\ ~HasResult(data[last.inst], k)
        /\ fs.exists /\ JsonValid(fs) /\ fs.members = <<>>

C9_Witness == last.op = "clear" /\ fs.exists /\ fs.members = <<>> /\ data[1] = <<>>

\* C10: for a key that was not in the file loaded at construction and was not
\* set since, or whose last set was followed by a remove of it or by a clear,
\* get returns None and has returns False, without an error.
C10_AbsentKey ==
    /\ \A i \in Inst : constructed[i] =>
          \A k \in Keys \ live[i] :
              GetResult(data[i], k) = PyNone /\ ~HasResult(data[i], k)
    /\ (last.op = "get" /\ last.key \notin live[last.inst])
          => (last.ret = PyNone /\ ~last.raised)
    /\ (last.op = "has" /\ last.key \notin live[last.inst])
          => (last.ret = PyFalse /\ ~last.raised)

\* a get of a key that is gone while another key is still stored
C10_Witness ==
    /\ last.op = "get" /\ last.key \notin live[1] /\ last.ret = PyNone
    /\ persisted /\ data[1] # <<>>

----------------------------------------------------------------------------
(* Properties of the credential repository (specification SpecKeys) *)

StoredRecord(f, name) == DictGet(load_all_keys(f), name, <<>>)

HasRecord(f, name) == DictHas(load_all_keys(f), name)

HasBothFields(rec) == DictHas(rec, "identity_key") /\ DictHas(rec, "wallet_key")

\* C4: two getOrCreate(name) calls in a row for one name return the same
\* (identity key, wallet key) pair, and the second generates no key.
C4_SecondCallSamePair ==
    (/\ calls[1].op = "getOrCreate" /\ calls[2].op = "getOrCreate"
     /\ calls[1].name = calls[2].name
     /\ ~calls[1].raised /\ ~calls[2].raised)
    => (/\ calls[1].ik = calls[2].ik
        /\ calls[1].wk = calls[2].wk
        /\ calls[1].generated = 0)

\* C5: when getOrCreate(name) creates the keys, the pair it returns is the
\* pair stored under name in the credential file when it returns.
C5_ReturnedIsPersisted ==
    (calls[1].op = "getOrCreate" /\ calls[1].generated > 0 /\ ~calls[1].raised)
    => StoredRecord(keyfile, calls[1].name) = Record(calls[1].ik, calls[1].wk)

C7_OtherRecordsKept ==
    [][/\ (calls'[1].op \in {"saveRecord", "getOrCreate"})
            => \A n \in Names \ {calls'[1].name} :
                  /\ HasRecord(keyfile', n) = HasRecord(keyfile, n)
                  /\ StoredRecord(keyfile', n) = StoredRecord(keyfile, n)
       /\ (/\ calls'[1].op = "getOrCreate" /\ calls'[2].op = "getOrCreate"
           /\ calls'[1].name # calls'[2].name
           /\ ~calls'[1].raised /\ ~calls'[2].raised)
            => (HasRecord(keyfile', calls'[1].name) /\ HasRecord(keyfile', calls'[2].name))]_vars

\* two creations in a row, for two names, both stored
C7_Witness ==
    /\ calls[1].op = "getOrCreate" /\ calls[2].op = "getOrCreate"
    /\ calls[1].name # calls[2].name
    /\ calls[1].generated > 0 /\ calls[2].generated > 0
    /\ HasBothFields(StoredRecord(keyfile, calls[1].name))
    /\ HasBothFields(StoredRecord(keyfile, calls[2].name))

----------------------------------------------------------------------------
(* Files that are no JSON text.  A JSON object text cut anywhere before its *)
(* closing brace is not a JSON text; what was written of it is kept as the  *)
(* members that came before the cut.                                       *)

Truncated(f, n) ==
    LET m == IF n < Len(f.members) THEN n ELSE Len(f.members)
    IN  [exists |-> TRUE, members |-> [j \in 1..m |-> f.members[j]], closed |-> FALSE]

MalformedStoreFiles ==
    {Truncated(Save(d), n) : d \in AllDicts, n \in 0..NumKeys} \ {NoFile}

MalformedKeyFiles ==
    {Truncated(WriteKeys(<<Entry("alice", Record("K1", "K2"))>>), n) : n \in 0..1}

\* The store and the credential repository started on files of which the
\* credential file, and possibly the store's file, is malformed.
InitMalformed ==
    /\ fs \in {NoFile} \cup {Save(d) : d \in AllDicts} \cup MalformedStoreFiles
    /\ data = [i \in Inst |-> <<>>]
    /\ constructed = [i \in Inst |-> FALSE]
    /\ live = [i \in Inst |-> {}]
    /\ persisted = FALSE
    /\ last = NoCall
    /\ writer = 0
    /\ seen = [i \in Inst |-> {}]
    /\ saving = NoSaving
    /\ keyfile \in MalformedKeyFiles
    /\ calls = <<NoKeyCall, NoKeyCall>>
    /\ proc = [p \in Procs |-> Idle]

NextMalformed == Next \/ NextKeys

SpecMalformed == InitMalformed /\ [][NextMalformed]_vars

\* C11: constructing a KeyValueStore on a backing file that is no valid JSON
\* raises and leaves no store (no empty mapping in its place); loadAll,
\* saveRecord and getOrCreate on a malformed credential file raise, generate
\* and write nothing; the malformed file is left as it was.
C11_MalformedIsFatal ==
    [][/\ (last'.op = "init" /\ fs.exists /\ ~JsonValid(fs))
            => (last'.raised /\ ~constructed'[last'.inst] /\ fs' = fs)
       /\ (calls'[1].op \in {"loadAll", "saveRecord", "getOrCreate"}
           /\ keyfile.exists /\ ~JsonValid(keyfile))
            => (/\ calls'[1].raised /\ calls'[1].generated = 0 /\ ~calls'[1].wrote
                /\ keyfile' = keyfile)]_vars

C11_Witness ==
    /\ last.op = "init" /\ last.raised /\ ~constructed[1]
    /\ fs.exists /\ ~JsonValid(fs) /\ fs.members # <<>>
    /\ calls[1].op = "getOrCreate" /\ calls[1].raised
    /\ calls[2].op = "saveRecord" /\ calls[2].raised
    /\ keyfile \in MalformedKeyFiles

----------------------------------------------------------------------------
(* Records with missing or empty key fields (specification SpecKeys) *)

FieldEmpty(rec, field) == ~DictHas(rec, field) \/ DictGet(rec, field, NoVal) = Str("")

KeyFieldsMissingOrEmpty(rec) ==
    FieldEmpty(rec, "identity_key") \/ FieldEmpty(rec, "wallet_key")

\* C12: when the record stored for name is empty, lacks identity_key or
\* wallet_key, or has an empty string for one of them, getOrCreate(name)
\* generates a new pair, persists it under name and returns it, and raises
\* nothing.
C12_EmptyFieldsRegenerate ==
    [][(calls'[1].op = "getOrCreate" /\ ~LoadRaises(keyfile)
        /\ HasRecord(keyfile, calls'[1].name)
        /\ KeyFieldsMissingOrEmpty(StoredRecord(keyfile, calls'[1].name)))
          => (/\ ~calls'[1].raised
              /\ calls'[1].generated > 0
              /\ calls'[1].wrote
              /\ StoredRecord(keyfile', calls'[1].name)
                    = Record(calls'[1].ik, calls'[1].wk))]_vars

\* C14: getOrCreate looks at the truth value of the whole record only.  An
\* empty record object is a miss: keys are generated and a full record is
\* written over it by save_private_keys.  A non-empty record with both fields
\* is a hit whatever the fields hold, empty strings included: the stored
\* values are returned, nothing is generated and the file is not written.
C14_WholeRecordTruthiness ==
    [][(calls'[1].op = "getOrCreate" /\ ~LoadRaises(keyfile)
        /\ HasRecord(keyfile, calls'[1].name))
          => LET name == calls'[1].name
                 rec == StoredRecord(keyfile, name)
             IN  /\ rec = <<>> =>
                       /\ ~calls'[1].raised
                       /\ calls'[1].generated > 0 /\ calls'[1].wrote
                       /\ \E saved_key \in GenKeys :
                             keyfile' = save_private_keys(keyfile, name,
                                                          calls'[1].ik, saved_key)
                       /\ calls'[1].ik \in GenKeys /\ calls'[1].wk \in GenKeys
                 /\ (rec # <<>> /\ HasBothFields(rec)) =>
                       /\ ~calls'[1].raised
                       /\ calls'[1].generated = 0 /\ ~calls'[1].wrote
                       /\ keyfile' = keyfile
                       /\ <<Str(calls'[1].ik), Str(calls'[1].wk)>>
                             = <<DictGet(rec, "identity_key", NoVal),
                                 DictGet(rec, "wallet_key", NoVal)>>]_vars

\* a hit that returned an empty identity key as stored
C14_Witness ==
    /\ calls[1].op = "getOrCreate" /\ ~calls[1].raised /\ calls[1].generated = 0
    /\ calls[1].ik = "" /\ calls[1].wk # ""
    /\ StoredRecord(keyfile, calls[1].name) = Record("", calls[1].wk)

----------------------------------------------------------------------------
(* When the backing file comes into existence (specification Spec) *)

\* C13: __init__, get, has and remove of an absent key never write the
\* backing file, and get and has never change the mapping; so with no file at
\* the start there is none until the first set or clear returns, and after
\* set(k, v) as the first mutation the file holds exactly the object {k: v}.
C13_NoFileBeforeFirstMutation ==
    [][/\ (\/ last'.op \in {"init", "get", "has"}
           \/ (last'.op = "remove" /\ ~HasResult(data[last'.inst], last'.key)))
            => (fs' = fs /\ ~last'.wrote)
       /\ (last'.op \in {"get", "has"}) => data' = data
       /\ (~fs.exists /\ fs'.exists) => (last'.op \in {"set", "clear"} /\ last'.wrote)
       /\ (~fs.exists /\ last'.op = "set")
            => fs' = [exists |-> TRUE,
                      members |-> <<[name |-> last'.key, lex |-> JsonEncode(last'.arg)]>>,
                      closed |-> TRUE]]_vars

\* the file {"x": 1} that set("x", 1) wrote
C13_Witness ==
    /\ last.op = "set" /\ last.key = "x" /\ last.arg = PyInt1
    /\ fs = [exists |-> TRUE,
             members |-> <<[name |-> "x", lex |-> [kind |-> "number", text |-> "1"]]>>,
             closed |-> TRUE]

\* C18: for every key, get(key) returns the absent indicator (None) exactly
\* when has(key) is false, stored None values included.
C18_AbsentIffNotHas ==
    constructed[1] =>
        \A k \in Keys : (GetResult(data[1], k) = PyNone) <=> ~HasResult(data[1], k)

FileLexeme(k) ==
    LET j == CHOOSE j \in DOMAIN fs.members : fs.members[j].name = k
    IN  fs.members[j].lex

\* C18 as amended: get(key) returns None when has(key) is false, and when
\* has(key) is true it returns None exactly when the value stored under key is
\* None (null in the backing file); a non-None result means the key is present.
C18_AbsentOrStoredNone ==
    /\ constructed[1] =>
          \A k \in Keys :
              /\ ~HasResult(data[1], k) => GetResult(data[1], k) = PyNone
              /\ HasResult(data[1], k) =>
                    /\ fs.exists /\ k \in {fs.members[j].name : j \in DOMAIN fs.members}
                    /\ (GetResult(data[1], k) = PyNone) <=> (FileLexeme(k).kind = "null")
    /\ last.op = "get" =>
          /\ ~last.raised
          /\ last.ret # PyNone => HasResult(data[last.inst], last.key)

\* get returned None for a key that has() reports present
C18_Witness ==
    /\ last.op = "get" /\ last.ret = PyNone
    /\ HasResult(data[1], last.key)
    /\ FileLexeme(last.key).kind = "null"

----------------------------------------------------------------------------
(* Two store instances on one backing file, each call (its file write      *)
(* included) atomic, the calls of the two interleaved in any order.        *)

TwoKeys == {KeyNames[1], KeyNames[2]}   \* the keys the two instances use

InitTwo ==
    /\ InitStoreVars
    /\ DictKeys(Load(fs)) \subseteq TwoKeys
    /\ InitCredIdle

NextTwo ==
    \/ \E i \in Inst : Construct(i)
    \/ \E i \in Inst, k \in TwoKeys : Get(i, k)
    \/ \E i \in Inst, k \in TwoKeys : Has(i, k)
    \/ \E i \in Inst, k \in TwoKeys, v \in Values : Set(i, k, v)
    \/ \E i \in Inst, k \in TwoKeys : Remove(i, k)
    \/ \E i \in Inst : Clear(i)

SpecTwo == InitTwo /\ [][NextTwo]_vars

FileKeys == {fs.members[j].name : j \in DOMAIN fs.members}

----------------------------------------------------------------------------
(* Two processes, each making one call on the credential file, with every  *)
(* read of the file and every write of the file a step of its own.         *)
(* proc[p].stale is history: another process wrote the file after p read   *)
(* it in save_private_keys and before p wrote.                             *)

read_modify_fresh(f, name, identity_key, wallet_key) ==
    DictSet(<<>>, name, Record(identity_key, wallet_key))

\* private_keys = load_all_keys(); private_keys[name] = {...}
read_modify(f, name, identity_key, wallet_key) ==
    DictSet(load_all_keys(f), name, Record(identity_key, wallet_key))

Done(p, fields) == proc' = [proc EXCEPT ![p] = fields]

\* get_or_create_private_keys up to its call of save_private_keys
GocLookup(p, name) ==
    /\ proc[p].pc = "idle"
    /\ LET me == [proc[p] EXCEPT !.op = "getOrCreate", !.name = name]
           keys == load_all_keys(keyfile)
           private_keys == DictGet(keys, name, <<>>)
       IN  IF LoadRaises(keyfile)
           THEN Done(p, [me EXCEPT !.pc = "done", !.raised = TRUE])
           ELSE IF HitRecord(keys, name)
           THEN IF DictHas(private_keys, "identity_key")
                   /\ DictHas(private_keys, "wallet_key")
                THEN Done(p, [me EXCEPT
                                !.pc = "done",
                                !.identity_key = DictGet(private_keys, "identity_key", NoVal).val,
                                !.wallet_key = DictGet(private_keys, "wallet_key", NoVal).val])
                ELSE Done(p, [me EXCEPT !.pc = "done", !.raised = TRUE])
           ELSE \E identity_key \in GenKeys, wallet_key \in GenKeys, saved_key \in GenKeys :
                   Done(p, [me EXCEPT !.pc = "save_read", !.generated = 3,
                                      !.identity_key = identity_key,
                                      !.wallet_key = wallet_key,
                                      !.saved_key = saved_key])
    /\ UNCHANGED <<keyfile, calls, storeVars>>

\* a caller's own save_private_keys(name, identity_key, wallet_key)
SaveBegin(p, name, identity_key, wallet_key) ==
    /\ proc[p].pc = "idle"
    /\ Done(p, [proc[p] EXCEPT !.pc = "save_read", !.op = "saveRecord", !.name = name,
                               !.identity_key = identity_key,
                               !.wallet_key = wallet_key,
                               !.saved_key = wallet_key])
    /\ UNCHANGED <<keyfile, calls, storeVars>>

\* save_private_keys, the read: load_all_keys() and the new entry
SaveRead(p) ==
    /\ proc[p].pc = "save_read"
    /\ IF LoadRaises(keyfile)
       THEN Done(p, [proc[p] EXCEPT !.pc = "done", !.raised = TRUE])
       ELSE Done(p, [proc[p] EXCEPT
                        !.pc = "save_write",
                        !.stale = FALSE,
                        !.private_keys = read_modify(keyfile, proc[p].name,
                                                     proc[p].identity_key,
                                                     proc[p].saved_key)])
    /\ UNCHANGED <<keyfile, calls, storeVars>>

\* save_private_keys, the write: open(path, "w") and json.dump, then return
SaveWrite(p) ==
    /\ proc[p].pc = "save_write"
    /\ keyfile' = WriteKeys(proc[p].private_keys)
    /\ proc' = [q \in Procs |->
                  IF q = p
                  THEN [proc[q] EXCEPT !.pc = "done", !.wrote = TRUE]
                  ELSE IF proc[q].pc = "save_write"
                       THEN [proc[q] EXCEPT !.stale = TRUE]
                       ELSE proc[q]]
    /\ UNCHANGED <<calls, storeVars>>

InitConc ==
    /\ keyfile \in {NoFile}
                   \cup {WriteKeys(<<Entry("alice", Record(a, b))>>) :
                            a \in GenKeys, b \in GenKeys}
    /\ calls = <<NoKeyCall, NoKeyCall>>
    /\ proc = [p \in Procs |-> Idle]
    /\ fs = NoFile
    /\ data = [i \in Inst |-> <<>>]
    /\ constructed = [i \in Inst |-> FALSE]
    /\ live = [i \in Inst |-> {}]
    /\ persisted = FALSE
    /\ last = NoCall
    /\ writer = 0
    /\ seen = [i \in Inst |-> {}]
    /\ saving = NoSaving

NextConc ==
    \/ \E p \in Procs, n \in Names : GocLookup(p, n)
    \/ \E p \in Procs, n \in Names, a \in GenKeys, b \in GenKeys : SaveBegin(p, n, a, b)
    \/ \E p \in Procs : SaveRead(p)
    \/ \E p \in Procs : SaveWrite(p)

SpecConc == InitConc /\ [][NextConc]_vars

BothReturned == \A p \in Procs : proc[p].pc = "done" /\ ~proc[p].raised

\* C16: save_private_keys reads the whole file, then writes the whole file,
\* with no lock between.  A writer's own record is in the file it wrote, and
\* the records of two calls for different names are both kept whenever neither
\* process wrote between the other's read and write; when one did, the witness
\* shows both calls returning with only one of the two records in the file.
C16_RecordsKeptUnlessInterleaved ==
    /\ \A p \in Procs :
          (proc[p].pc = "done" /\ proc[p].wrote /\ ~(\E q \in Procs : q # p /\ proc[q].wrote))
             => StoredRecord(keyfile, proc[p].name)
                   = Record(proc[p].identity_key, proc[p].saved_key)
    /\ (BothReturned /\ (\A p \in Procs : proc[p].wrote /\ ~proc[p].stale))
          => \A p \in Procs : HasRecord(keyfile, proc[p].name)
    /\ (BothReturned /\ (\A p \in Procs : proc[p].wrote))
          => \E p \in Procs : StoredRecord(keyfile, proc[p].name)
                                 = Record(proc[p].identity_key, proc[p].saved_key)

\* the lost update: both getOrCreate calls returned, for different names, and
\* the file holds the record of one name only
C16_Witness ==
    /\ BothReturned
    /\ \A p \in Procs : proc[p].op = "getOrCreate" /\ proc[p].wrote
    /\ proc[1].name # proc[2].name
    /\ \E p \in Procs : ~HasRecord(keyfile, proc[p].name)
    /\ Len(load_all_keys(keyfile)) = 1

----------------------------------------------------------------------------
(* One store instance whose _save is two kinds of step, open(path, "w")    *)
(* and the writes of json.dump, with a crash of the process possible       *)
(* between any two of them.  saving holds the call in progress, the file   *)
(* as it was before the call, and the file the call would leave.           *)

OpenKeep(f) == f

\* open(self._path, "w"): the file exists and is empty
OpenTruncate(f) == [exists |-> TRUE, members |-> <<>>, closed |-> FALSE]

\* the in-memory mutation, then _save up to the open
BeginSave(i, d, call) ==
    /\ constructed[i]
    /\ ~saving.active
    /\ data' = [data EXCEPT ![i] = d]
    /\ fs' = OpenTruncate(fs)
    /\ saving' = [active |-> TRUE, crashed |-> FALSE, call |-> call,
                  before |-> fs, after |-> Save(d)]
    /\ UNCHANGED <<constructed, persisted, writer, last, credVars>>

BeginSet(i, k, v) ==
    /\ BeginSave(i, DictSet(data[i], k, v), Call("set", i, k, v, NoVal, TRUE))
    /\ live' = [live EXCEPT ![i] = live[i] \cup {k}]
    /\ seen' = [seen EXCEPT ![i] = seen[i] \cup {k}]

BeginRemove(i, k) ==
    /\ DictHas(data[i], k)
    /\ BeginSave(i, DictDel(data[i], k), Call("remove", i, k, NoVal, NoVal, TRUE))
    /\ live' = [live EXCEPT ![i] = live[i] \ {k}]
    /\ UNCHANGED seen

BeginClear(i) ==
    /\ BeginSave(i, <<>>, Call("clear", i, "-", NoVal, NoVal, TRUE))
    /\ live' = [live EXCEPT ![i] = {}]
    /\ UNCHANGED seen

\* json.dump writes the next member of the object
WriteChunk ==
    /\ saving.active
    /\ Len(fs.members) < Len(saving.after.members)
    /\ fs' = Truncated(saving.after, Len(fs.members) + 1)
    /\ UNCHANGED <<data, constructed, live, persisted, last, writer, seen, saving, credVars>>

\* json.dump writes the closing brace, the with block closes the file, the call returns
FinishSave ==
    /\ saving.active
    /\ ~fs.closed
    /\ fs.members = saving.after.members
    /\ fs' = saving.after
    /\ persisted' = TRUE
    /\ writer' = saving.call.inst
    /\ last' = saving.call
    /\ saving' = [saving EXCEPT !.active = FALSE]
    /\ UNCHANGED <<data, constructed, live, seen, credVars>>

\* the process dies inside _save: the disk keeps a prefix of what was written,
\* every instance of the process is gone
Crash ==
    /\ saving.active
    /\ \E n \in 0..Len(fs.members) :
          fs' = IF fs.closed THEN fs ELSE Truncated(fs, n)
    /\ saving' = [saving EXCEPT !.active = FALSE, !.crashed = TRUE]
    /\ data' = [i \in Inst |-> <<>>]
    /\ constructed' = [i \in Inst |-> FALSE]
    /\ live' = [i \in Inst |-> {}]
    /\ seen' = [i \in Inst |-> {}]
    /\ last' = NoCall
    /\ UNCHANGED <<persisted, writer, credVars>>

InitCrash ==
    /\ InitStoreVars
    /\ InitCredIdle

NextCrash ==
    \/ ~saving.active /\ Construct(1)
    \/ ~saving.active /\ \E k \in Keys : Get(1, k)
    \/ ~saving.active /\ \E k \in Keys : ~DictHas(data[1], k) /\ Remove(1, k)
    \/ \E k \in Keys, v \in Values : BeginSet(1, k, v)
    \/ \E k \in Keys : BeginRemove(1, k)
    \/ BeginClear(1)
    \/ WriteChunk
    \/ FinishSave
    \/ Crash

SpecCrash == InitCrash /\ [][NextCrash]_vars

\* C17: _save truncates the file and then rewrites it.  After a crash inside
\* the _save of set, remove or clear the file exists, is not a JSON object, and
\* is neither the file as it was before the call nor the file the call would
\* have left; a construction on that path afterwards raises and yields no
\* store, with neither the old nor the new mapping.
C17_CrashLeavesPartialFile ==
    saving.crashed =>
        /\ saving.call.op \in {"set", "remove", "clear"}
        /\ fs.exists
        /\ ~JsonValid(fs)
        /\ fs # saving.before
        /\ fs # saving.after
        /\ \A i \in Inst : ~constructed[i] /\ data[i] = <<>>
        /\ last.op = "init" => last.raised

\* a crash in the middle of a rewrite of a file that held a mapping, followed
\* by a construction that raised
C17_Witness ==
    /\ saving.crashed
    /\ saving.before.exists
    /\ Len(saving.before.members) > 0
    /\ Len(saving.after.members) > Len(fs.members)
    /\ last.op = "init"
    /\ last.raised

====
